---- MODULE Spec2Model ----
(***************************************************************************)
(* Model of src/matrix.rs: the diode matrix scanner `Matrix` (new, clear,  *)
(* delay_us, get) and the direct pin scanner `DirectPinMatrix` (new, get). *)
(*                                                                         *)
(* The pins are the embedded-hal collaborators.  An output pin is modelled *)
(* by the level of its line, an input pin by what is_low returns.  Every   *)
(* pin operation can return Err.  A write that returns Err has not driven  *)
(* the line: the line keeps the level of the last write that returned Ok.  *)
(* The switches are pull-up wired: column j of the diode matrix reads low  *)
(* exactly when some row that is low has its switch on column j closed.    *)
(* `dly` counts the calls of cortex_m::asm::delay made in the current call *)
(* and `prev` is the result of the call before the current one, recorded   *)
(* only under SpecTwice.                                                   *)
(***************************************************************************)
EXTENDS Naturals, Integers, Sequences, FiniteSets, TLC

VARIABLES RS, CS, pressed, rows, pins, pc, ri, ci, keys, out, log, call, changes,
          dly, prev

vars == <<RS, CS, pressed, rows, pins, pc, ri, ci, keys, out, log, call, changes,
          dly, prev>>

\* Bounds on the const generics RS and CS.
MaxRS == 2
MaxCS == 2

\* Bound on the number of times the environment changes a switch.
MaxChanges == 1

\* The argument of the settle delay, Self::delay_us(10).
SettleUs == 10

RowIdx == 0 .. (RS - 1)
ColIdx == 0 .. (CS - 1)
Cells == RowIdx \X ColIdx

\* [[false; CS]; RS]
AllFalse == [r \in RowIdx |-> [c \in ColIdx |-> FALSE]]

\* The value of the local `keys` outside a scan.
NoKeys == <<>>

\* No call has returned yet.
NoResult == [tag |-> "None", val |-> <<>>]

\* Ok(v) and Err(e) of Result.
Ok(v) == [tag |-> "Ok", val |-> v]
Err(e) == [tag |-> "Err", val |-> e]

\* The error value a failing pin operation returns: it is opaque to the
\* scanner, so it is identified by the operation that produced it.
PinError(op, pin) == <<op, pin>>

\* One record of the pin double: operation, pin index, outcome.
Rec(op, pin, res) == <<op, pin, res>>

\* No call of the delay primitive yet: their number and the ticks they sum to.
NoDelay == [calls |-> 0, ticks |-> 0]

\* u32 has 32 bits: 2^32 is U32Half * U32Half.
U32Half == 65536

\* x is a value of u32.
FitsU32(x) == x >= 0 /\ (x \div U32Half) < U32Half

\* x modulo 2^32, the result of wrapping u32 arithmetic.
WrapU32(x) == x - ((x \div U32Half) \div U32Half) * U32Half * U32Half

\* Mutant of delay_us: one call of the primitive for the whole delay.
delay_us_SingleCall(us) ==
    LET ticksPerSecond == 12000000
        ticksPerMicroSecond == ticksPerSecond \div 1000000
    IN  [calls |-> 1, ticks |-> WrapU32(us * ticksPerMicroSecond)]

\* delay_us: iterations = us * 1 in u32, one delay(ticksPerMicroSecond) call
\* per iteration.
delay_us(us) ==
    LET ticksPerSecond == 12000000
        ticksPerMicroSecond == ticksPerSecond \div 1000000
        iterations == WrapU32(us * 1)
    IN  [calls |-> iterations, ticks |-> ticksPerMicroSecond]

\* Mutant of SetKey: the whole row r is marked pressed.
SetKey_WholeRow(k, r, c) == [k EXCEPT ![r] = [x \in DOMAIN k[r] |-> TRUE]]

\* keys[r][c] = true
SetKey(k, r, c) == [k EXCEPT ![r][c] = TRUE]

\* Mutant of ColIsLow: the polarity is inverted (is_high).
ColIsLow_Inverted(j) == ~\E k \in RowIdx : rows[k] = "low" /\ <<k, j>> \in pressed

\* What col.is_low() answers for column j of the diode matrix.
ColIsLow(j) == \E k \in RowIdx : rows[k] = "low" /\ <<k, j>> \in pressed

(***************************************************************************)
(* Matrix (diode matrix)                                                   *)
(***************************************************************************)

\* Before Matrix::new: the sizes are fixed, the lines have any level.
Init ==
    /\ RS \in 0 .. MaxRS
    /\ CS \in 0 .. MaxCS
    /\ pressed \in SUBSET Cells
    /\ rows \in [RowIdx -> {"high", "low"}]
    /\ pins = {}
    /\ pc = "start"
    /\ ri = 0
    /\ ci = 0
    /\ keys = NoKeys
    /\ out = NoResult
    /\ log = <<>>
    /\ call = "none"
    /\ changes = 0
    /\ dly = NoDelay
    /\ prev = NoResult

\* Mutant of New: the rows are not cleared.
New_NoClear ==
    /\ pc = "start"
    /\ pc' = "clear"
    /\ call' = "new"
    /\ ri' = RS
    /\ log' = <<>>
    /\ UNCHANGED <<prev, dly, changes, RS, CS, pressed, rows, pins, ci, keys, out>>

\* new: let mut res = Self { cols, rows }; res.clear()
New ==
    /\ pc = "start"
    /\ pc' = "clear"
    /\ call' = "new"
    /\ ri' = 0
    /\ log' = <<>>
    /\ UNCHANGED <<prev, dly, changes, RS, CS, pressed, rows, pins, ci, keys, out>>

\* clear: r.set_high() returns Ok.
ClearSetHigh ==
    /\ pc = "clear"
    /\ ri < RS
    /\ rows' = [rows EXCEPT ![ri] = "high"]
    /\ log' = Append(log, Rec("set_high", ri, "ok"))
    /\ ri' = ri + 1
    /\ UNCHANGED <<prev, dly, changes, RS, CS, pressed, pins, pc, ci, keys, out, call>>

\* Mutant of ClearSetHighErr: the error is swallowed and the loop goes on.
ClearSetHighErr_Swallowed ==
    /\ pc = "clear"
    /\ ri < RS
    /\ log' = Append(log, Rec("set_high", ri, "err"))
    /\ ri' = ri + 1
    /\ UNCHANGED <<prev, dly, changes, RS, CS, pressed, rows, pins, pc, ci, keys, out, call>>

\* clear: r.set_high()? returns Err, which new propagates; res is dropped.
ClearSetHighErr ==
    /\ pc = "clear"
    /\ ri < RS
    /\ log' = Append(log, Rec("set_high", ri, "err"))
    /\ out' = Err(PinError("set_high", ri))
    /\ pc' = "dropped"
    /\ UNCHANGED <<prev, dly, changes, RS, CS, pressed, rows, pins, ri, ci, keys, call>>

\* clear returns Ok(()), new returns Ok(res).
NewOk ==
    /\ pc = "clear"
    /\ ri = RS
    /\ out' = Ok("Self")
    /\ pc' = "idle"
    /\ UNCHANGED <<prev, dly, changes, RS, CS, pressed, rows, pins, ri, ci, keys, log, call>>

\* get: let mut keys = [[false; CS]; RS]; the row loop starts.
Get ==
    /\ pc = "idle"
    /\ keys' = AllFalse
    /\ ri' = 0
    /\ ci' = 0
    /\ log' = <<>>
    /\ out' = NoResult
    /\ call' = "get"
    /\ pc' = "row"
    /\ dly' = NoDelay
    /\ UNCHANGED <<prev, changes, RS, CS, pressed, rows, pins>>

\* Mutant of GetSetLow: the row is driven to the wrong level.
GetSetLow_DrivesHigh ==
    /\ pc = "row"
    /\ ri < RS
    /\ rows' = [rows EXCEPT ![ri] = "high"]
    /\ log' = Append(log, Rec("set_low", ri, "ok"))
    /\ pc' = "delay"
    /\ UNCHANGED <<prev, dly, changes, RS, CS, pressed, pins, ri, ci, keys, out, call>>

\* row.set_low() returns Ok.
GetSetLow ==
    /\ pc = "row"
    /\ ri < RS
    /\ rows' = [rows EXCEPT ![ri] = "low"]
    /\ log' = Append(log, Rec("set_low", ri, "ok"))
    /\ pc' = "delay"
    /\ UNCHANGED <<prev, dly, changes, RS, CS, pressed, pins, ri, ci, keys, out, call>>

\* row.set_low()? returns Err.
GetSetLowErr ==
    /\ pc = "row"
    /\ ri < RS
    /\ log' = Append(log, Rec("set_low", ri, "err"))
    /\ out' = Err(PinError("set_low", ri))
    /\ keys' = NoKeys
    /\ pc' = "idle"
    /\ UNCHANGED <<prev, dly, changes, RS, CS, pressed, rows, pins, ri, ci, call>>

\* Mutant of GetDelay: the settle delay is left out.
GetDelay_Skipped ==
    /\ pc = "delay"
    /\ ci' = 0
    /\ pc' = "col"
    /\ UNCHANGED <<prev, dly, changes, RS, CS, pressed, rows, pins, ri, keys, out, log, call>>

\* Self::delay_us(10); the column loop starts.
GetDelay ==
    /\ pc = "delay"
    /\ log' = Append(log, Rec("delay_us", SettleUs, "ok"))
    /\ LET d == delay_us(SettleUs)
       IN  dly' = [calls |-> dly.calls + d.calls,
                   ticks |-> dly.ticks + d.calls * d.ticks]
    /\ ci' = 0
    /\ pc' = "col"
    /\ UNCHANGED <<prev, changes, RS, CS, pressed, rows, pins, ri, keys, out, call>>

\* col.is_low() returns Ok(b); if b { keys[ri][ci] = true }
GetRead ==
    /\ pc = "col"
    /\ ci < CS
    /\ LET b == ColIsLow(ci)
       IN  /\ keys' = IF b THEN SetKey(keys, ri, ci) ELSE keys
           /\ log' = Append(log, Rec("is_low", ci, IF b THEN "low" ELSE "high"))
    /\ ci' = ci + 1
    /\ UNCHANGED <<prev, dly, changes, RS, CS, pressed, rows, pins, pc, ri, out, call>>

\* Mutant of GetReadErr: the error is swallowed and the next column is read.
GetReadErr_Continues ==
    /\ pc = "col"
    /\ ci < CS
    /\ log' = Append(log, Rec("is_low", ci, "err"))
    /\ ci' = ci + 1
    /\ UNCHANGED <<prev, dly, changes, RS, CS, pressed, rows, pins, pc, ri, keys, out, call>>

\* col.is_low()? returns Err.
GetReadErr ==
    /\ pc = "col"
    /\ ci < CS
    /\ log' = Append(log, Rec("is_low", ci, "err"))
    /\ out' = Err(PinError("is_low", ci))
    /\ keys' = NoKeys
    /\ pc' = "idle"
    /\ UNCHANGED <<prev, dly, changes, RS, CS, pressed, rows, pins, ri, ci, call>>

\* Mutant of GetSetHigh: the row is not restored.
GetSetHigh_NoRestore ==
    /\ pc = "col"
    /\ ci = CS
    /\ ri' = ri + 1
    /\ pc' = "row"
    /\ UNCHANGED <<prev, dly, changes, RS, CS, pressed, rows, pins, ci, keys, out, log, call>>

\* Mutant of GetSetHigh: the row loop does not advance.
GetSetHigh_SameRow ==
    /\ pc = "col"
    /\ ci = CS
    /\ rows' = [rows EXCEPT ![ri] = "high"]
    /\ log' = Append(log, Rec("set_high", ri, "ok"))
    /\ pc' = "row"
    /\ UNCHANGED <<prev, dly, changes, RS, CS, pressed, pins, ri, ci, keys, out, call>>

\* row.set_high() returns Ok; the next row.
GetSetHigh ==
    /\ pc = "col"
    /\ ci = CS
    /\ rows' = [rows EXCEPT ![ri] = "high"]
    /\ log' = Append(log, Rec("set_high", ri, "ok"))
    /\ ri' = ri + 1
    /\ pc' = "row"
    /\ UNCHANGED <<prev, dly, changes, RS, CS, pressed, pins, ci, keys, out, call>>

\* row.set_high()? returns Err.
GetSetHighErr ==
    /\ pc = "col"
    /\ ci = CS
    /\ log' = Append(log, Rec("set_high", ri, "err"))
    /\ out' = Err(PinError("set_high", ri))
    /\ keys' = NoKeys
    /\ pc' = "idle"
    /\ UNCHANGED <<prev, dly, changes, RS, CS, pressed, rows, pins, ri, ci, call>>

\* Ok(keys)
GetOk ==
    /\ pc = "row"
    /\ ri = RS
    /\ out' = Ok(keys)
    /\ keys' = NoKeys
    /\ pc' = "idle"
    /\ UNCHANGED <<prev, dly, changes, RS, CS, pressed, rows, pins, ri, ci, log, call>>

\* The environment opens or closes one switch.
SwitchChange ==
    /\ changes < MaxChanges
    /\ pc \in {"idle", "row", "delay", "col"}
    /\ \E x \in Cells : pressed' = (pressed \ {x}) \cup ({x} \ pressed)
    /\ changes' = changes + 1
    /\ UNCHANGED <<prev, dly, RS, CS, rows, pins, pc, ri, ci, keys, out, log, call>>

Next ==
    \/ SwitchChange
    \/ New
    \/ ClearSetHigh
    \/ ClearSetHighErr
    \/ NewOk
    \/ Get
    \/ GetSetLow
    \/ GetSetLowErr
    \/ GetDelay
    \/ GetRead
    \/ GetReadErr
    \/ GetSetHigh
    \/ GetSetHighErr
    \/ GetOk

Spec == Init /\ [][Next]_vars

(***************************************************************************)
(* DirectPinMatrix                                                         *)
(***************************************************************************)

\* Before DirectPinMatrix::new: `pins` holds the cells that are Some(pin),
\* `pressed` the pins whose line is low.
InitDirect ==
    /\ RS \in 0 .. MaxRS
    /\ CS \in 0 .. MaxCS
    /\ pins \in SUBSET Cells
    /\ pressed \in SUBSET pins
    /\ rows = <<>>
    /\ pc = "d_start"
    /\ ri = 0
    /\ ci = 0
    /\ keys = NoKeys
    /\ out = NoResult
    /\ log = <<>>
    /\ call = "none"
    /\ changes = 0
    /\ dly = NoDelay
    /\ prev = NoResult

\* The environment opens or closes the switch of one pin.  A scan reads each
\* pin once, so a change during a scan acts as one before or after it: the
\* changes are taken between the calls.
DirectSwitchChange ==
    /\ changes < MaxChanges
    /\ pc = "d_idle"
    /\ \E x \in pins : pressed' = (pressed \ {x}) \cup ({x} \ pressed)
    /\ changes' = changes + 1
    /\ UNCHANGED <<prev, dly, RS, CS, rows, pins, pc, ri, ci, keys, out, log, call>>

\* Mutant of DirectNew: a pin is probed during construction.
DirectNew_Probes ==
    /\ pc = "d_start"
    /\ call' = "new"
    /\ log' = IF pins = {} THEN <<>>
              ELSE <<Rec("is_low", CHOOSE x \in pins : TRUE, "high")>>
    /\ out' = Ok("Self")
    /\ pc' = "d_idle"
    /\ UNCHANGED <<prev, dly, changes, RS, CS, pressed, rows, pins, ri, ci, keys>>

\* new: let res = Self { pins }; Ok(res)
DirectNew ==
    /\ pc = "d_start"
    /\ call' = "new"
    /\ log' = <<>>
    /\ out' = Ok("Self")
    /\ pc' = "d_idle"
    /\ UNCHANGED <<prev, dly, changes, RS, CS, pressed, rows, pins, ri, ci, keys>>

\* get: let mut keys = [[false; CS]; RS]; the row loop starts.
DirectGet ==
    /\ pc = "d_idle"
    /\ keys' = AllFalse
    /\ ri' = 0
    /\ ci' = 0
    /\ log' = <<>>
    /\ out' = NoResult
    /\ call' = "get"
    /\ pc' = "d_cell"
    /\ dly' = NoDelay
    /\ UNCHANGED <<prev, changes, RS, CS, pressed, rows, pins>>

\* Mutant of DirectNone: a cell without a pin is marked pressed.
DirectNone_Pressed ==
    /\ pc = "d_cell"
    /\ ri < RS
    /\ ci < CS
    /\ <<ri, ci>> \notin pins
    /\ keys' = SetKey(keys, ri, ci)
    /\ ci' = ci + 1
    /\ UNCHANGED <<prev, dly, changes, RS, CS, pressed, rows, pins, pc, ri, out, log, call>>

\* if let Some(col) = col_option: the cell is None, nothing is done.
DirectNone ==
    /\ pc = "d_cell"
    /\ ri < RS
    /\ ci < CS
    /\ <<ri, ci>> \notin pins
    /\ ci' = ci + 1
    /\ UNCHANGED <<prev, dly, changes, RS, CS, pressed, rows, pins, pc, ri, keys, out, log, call>>

\* Mutant of DirectRead: the polarity is inverted (is_high).
DirectRead_Inverted ==
    /\ pc = "d_cell"
    /\ ri < RS
    /\ ci < CS
    /\ <<ri, ci>> \in pins
    /\ LET b == <<ri, ci>> \notin pressed
       IN  /\ keys' = IF b THEN SetKey(keys, ri, ci) ELSE keys
           /\ log' = Append(log, Rec("is_low", <<ri, ci>>, IF b THEN "low" ELSE "high"))
    /\ ci' = ci + 1
    /\ UNCHANGED <<prev, dly, changes, RS, CS, pressed, rows, pins, pc, ri, out, call>>

\* col.is_low() returns Ok(b); if b { keys[ri][ci] = true }
DirectRead ==
    /\ pc = "d_cell"
    /\ ri < RS
    /\ ci < CS
    /\ <<ri, ci>> \in pins
    /\ LET b == <<ri, ci>> \in pressed
       IN  /\ keys' = IF b THEN SetKey(keys, ri, ci) ELSE keys
           /\ log' = Append(log, Rec("is_low", <<ri, ci>>, IF b THEN "low" ELSE "high"))
    /\ ci' = ci + 1
    /\ UNCHANGED <<prev, dly, changes, RS, CS, pressed, rows, pins, pc, ri, out, call>>

\* Mutant of DirectReadErr: the error is swallowed and the next cell is read.
DirectReadErr_Continues ==
    /\ pc = "d_cell"
    /\ ri < RS
    /\ ci < CS
    /\ <<ri, ci>> \in pins
    /\ log' = Append(log, Rec("is_low", <<ri, ci>>, "err"))
    /\ ci' = ci + 1
    /\ UNCHANGED <<prev, dly, changes, RS, CS, pressed, rows, pins, pc, ri, keys, out, call>>

\* col.is_low()? returns Err.
DirectReadErr ==
    /\ pc = "d_cell"
    /\ ri < RS
    /\ ci < CS
    /\ <<ri, ci>> \in pins
    /\ log' = Append(log, Rec("is_low", <<ri, ci>>, "err"))
    /\ out' = Err(PinError("is_low", <<ri, ci>>))
    /\ keys' = NoKeys
    /\ pc' = "d_idle"
    /\ UNCHANGED <<prev, dly, changes, RS, CS, pressed, rows, pins, ri, ci, call>>

\* The inner loop is over; the next row.
DirectRowEnd ==
    /\ pc = "d_cell"
    /\ ri < RS
    /\ ci = CS
    /\ ri' = ri + 1
    /\ ci' = 0
    /\ UNCHANGED <<prev, dly, changes, RS, CS, pressed, rows, pins, pc, keys, out, log, call>>

\* Ok(keys)
DirectOk ==
    /\ pc = "d_cell"
    /\ ri = RS
    /\ out' = Ok(keys)
    /\ keys' = NoKeys
    /\ pc' = "d_idle"
    /\ UNCHANGED <<prev, dly, changes, RS, CS, pressed, rows, pins, ri, ci, log, call>>

NextDirect ==
    \/ DirectSwitchChange
    \/ DirectNew
    \/ DirectGet
    \/ DirectNone
    \/ DirectRead
    \/ DirectReadErr
    \/ DirectRowEnd
    \/ DirectOk

SpecDirect == InitDirect /\ [][NextDirect]_vars

(***************************************************************************)
(* Both scanners, with the result of the previous call kept                *)
(***************************************************************************)

\* What is kept of a call when the next one begins: its result and whether
\* it was new or get.
Kept == [tag |-> out.tag, val |-> out.val, call |-> call]

\* Matrix::get, called again: as Get, and the result of the call before is
\* kept in prev.
GetAgain ==
    /\ pc = "idle"
    /\ prev' = Kept
    /\ keys' = AllFalse
    /\ ri' = 0
    /\ ci' = 0
    /\ log' = <<>>
    /\ out' = NoResult
    /\ call' = "get"
    /\ pc' = "row"
    /\ dly' = NoDelay
    /\ UNCHANGED <<changes, RS, CS, pressed, rows, pins>>

\* DirectPinMatrix::get, called again: as DirectGet, and the result of the
\* call before is kept in prev.
DirectGetAgain ==
    /\ pc = "d_idle"
    /\ prev' = Kept
    /\ keys' = AllFalse
    /\ ri' = 0
    /\ ci' = 0
    /\ log' = <<>>
    /\ out' = NoResult
    /\ call' = "get"
    /\ pc' = "d_cell"
    /\ dly' = NoDelay
    /\ UNCHANGED <<changes, RS, CS, pressed, rows, pins>>

NextTwice ==
    \/ SwitchChange
    \/ New
    \/ ClearSetHigh
    \/ ClearSetHighErr
    \/ NewOk
    \/ GetAgain
    \/ GetSetLow
    \/ GetSetLowErr
    \/ GetDelay
    \/ GetRead
    \/ GetReadErr
    \/ GetSetHigh
    \/ GetSetHighErr
    \/ GetOk
    \/ DirectSwitchChange
    \/ DirectNew
    \/ DirectGetAgain
    \/ DirectNone
    \/ DirectRead
    \/ DirectReadErr
    \/ DirectRowEnd
    \/ DirectOk

SpecTwice == (Init \/ InitDirect) /\ [][NextTwice]_vars

\* Either scanner, without the record of the previous call.
NextBoth == Next \/ NextDirect

SpecBoth == (Init \/ InitDirect) /\ [][NextBoth]_vars

\* The steps of a call that has begun.  The code is synchronous and runs on
\* one thread: a call that has begun takes its next step.
Running ==
    \/ ClearSetHigh
    \/ ClearSetHighErr
    \/ NewOk
    \/ GetSetLow
    \/ GetSetLowErr
    \/ GetDelay
    \/ GetRead
    \/ GetReadErr
    \/ GetSetHigh
    \/ GetSetHighErr
    \/ GetOk
    \/ DirectNone
    \/ DirectRead
    \/ DirectReadErr
    \/ DirectRowEnd
    \/ DirectOk

\* The calls of either scanner from any state of the switches, the switches
\* staying as they are: which operations a call makes, and how many, does not
\* depend on them.
NextCalls == New \/ Get \/ DirectNew \/ DirectGet \/ Running

SpecFair == (Init \/ InitDirect) /\ [][NextCalls]_vars /\ WF_vars(Running)

(***************************************************************************)
(* Properties of Matrix, checked under Spec                                *)
(***************************************************************************)

\* The rows whose line is at the active level.
LowRows == {k \in RowIdx : rows[k] = "low"}

\* new has returned the instance (a scan may be in progress).
Constructed == pc \in {"idle", "row", "delay", "col"}

\* A get has returned and no other call has begun.
GetReturned == pc = "idle" /\ call = "get"

\* The positions of the log that record operation op.
IdxOf(op) == {i \in 1 .. Len(log) : log[i][1] = op}

\* The positions of the log that record operation op on pin p.
IdxOn(op, p) == {i \in IdxOf(op) : log[i][2] = p}

\* The largest member of a non-empty set of numbers.
MaxOf(S) == CHOOSE m \in S : \A n \in S : n <= m

\* The row most recently set low before position i of the log.
ActiveAt(i) == log[MaxOf({m \in IdxOf("set_low") : m < i})][2]

\* Column j read low at a sample taken while row k was driven low.
SampledLow(k, j) ==
    \E i \in IdxOn("is_low", j) : log[i][3] = "low" /\ ActiveAt(i) = k

\* C1: in every state from the return of new on, over any sequence of get
\* calls, successful or failed, at most one row line is low.
C1_AtMostOneRowActive == Constructed => Cardinality(LowRows) <= 1

\* C2: whenever no scan is in progress (new has returned the instance, or a
\* get has returned), every row line is high.
C2_RowsHighAtRest == pc = "idle" => \A k \in RowIdx : rows[k] = "high"

\* C3: in the grid of a scan that returned Ok, cell [k][j] is true exactly
\* when column j read low at the sample taken while row k was driven low; and
\* during the scan a cell is true exactly when its own sample read low, so a
\* sample changes no other cell.
C3_GridIsSamples ==
    /\ pc \in {"row", "delay", "col"} =>
         \A k \in RowIdx : \A j \in ColIdx : keys[k][j] <=> SampledLow(k, j)
    /\ (GetReturned /\ out.tag = "Ok") =>
         \A k \in RowIdx : \A j \in ColIdx : out.val[k][j] <=> SampledLow(k, j)

\* A scan of a 2 x 2 matrix returned Ok with a pressed and an unpressed cell
\* in the same row and in the same column.
C3_Witness ==
    /\ GetReturned /\ out.tag = "Ok"
    /\ RS = 2 /\ CS = 2
    /\ out.val[1][0] /\ ~out.val[1][1] /\ ~out.val[0][0]
    /\ SampledLow(1, 0)

\* C4: a scan that returned Ok set each row low exactly once and high exactly
\* once, in row order, row k restored before row k+1 is activated, with
\* exactly one settle delay per row, after the row's activation and before
\* every column read of the row.
C4_ScanSequence ==
    (GetReturned /\ out.tag = "Ok") =>
        /\ Cardinality(IdxOf("set_low")) = RS
        /\ Cardinality(IdxOf("set_high")) = RS
        /\ Cardinality(IdxOf("delay_us")) = RS
        /\ \A i \in 1 .. Len(log) : log[i][3] # "err"
        /\ \A k \in RowIdx :
             /\ Cardinality(IdxOn("set_low", k)) = 1
             /\ Cardinality(IdxOn("set_high", k)) = 1
             /\ LET lo == MaxOf(IdxOn("set_low", k))
                    hi == MaxOf(IdxOn("set_high", k))
                    ds == {d \in IdxOf("delay_us") : lo < d /\ d < hi}
                    rd == {r \in IdxOf("is_low") : lo < r /\ r < hi}
                IN  /\ lo < hi
                    /\ \A k2 \in RowIdx : k < k2 => hi < MaxOf(IdxOn("set_low", k2))
                    /\ Cardinality(ds) = 1
                    /\ \A d \in ds : log[d][2] = SettleUs
                    /\ \A d \in ds : \A r \in rd : d < r
                    /\ Cardinality(rd) = CS

\* A scan of a 2 x 2 matrix returned Ok after its eight pin operations and
\* two settle delays.
C4_Witness ==
    /\ GetReturned /\ out.tag = "Ok"
    /\ RS = 2 /\ CS = 2
    /\ Len(log) = 10

\* C5: when new has returned Ok, the writes recorded are one set-high per
\* row, in row order, each Ok, and nothing else: no set-low and no column
\* read; and none is made before new has returned.
C5_ConstructionWrites ==
    /\ (pc = "idle" /\ call = "new") =>
         /\ out = Ok("Self")
         /\ Len(log) = RS
         /\ \A k \in RowIdx : log[k + 1] = Rec("set_high", k, "ok")
         /\ \A k \in RowIdx : rows[k] = "high"
    /\ pc \in {"start", "clear", "dropped"} =>
         IdxOf("set_low") \cup IdxOf("is_low") \cup IdxOf("delay_us") = {}

\* new has returned Ok for a matrix of two rows.
C5_Witness == pc = "idle" /\ call = "new" /\ RS = 2 /\ Len(log) = 2

\* C6: in a scan, a failed pin operation is the last operation of the call:
\* get has returned, what it returned is that operation's error and no grid,
\* and nothing (pin operation or delay) was done after it.
C6_FailFast ==
    call = "get" =>
        /\ \A i \in 1 .. Len(log) :
             log[i][3] = "err" =>
                 /\ i = Len(log)
                 /\ pc = "idle"
                 /\ out = Err(PinError(log[i][1], log[i][2]))
        /\ (pc = "idle" /\ out.tag # "Ok") =>
             /\ out.tag = "Err"
             /\ Len(log) > 0
             /\ log[Len(log)][3] = "err"

\* A scan failed at a column read of its second row.
C6_Witness ==
    /\ GetReturned
    /\ out = Err(PinError("is_low", 1))
    /\ ri = 1
    /\ Len(log) = 9

\* C7: when a set-high of row k fails in new, new returns that error and no
\* instance (get cannot be called), the rows before k were set high and the
\* rows after k got no operation; new returns Ok only after RS set-high
\* operations that all returned Ok.
C7_AllOrNothing ==
    /\ \A i \in 1 .. Len(log) :
         (call = "new" /\ log[i][3] = "err") =>
             /\ i = Len(log)
             /\ pc = "dropped"
             /\ out = Err(PinError("set_high", i - 1))
             /\ \A m \in 1 .. i : log[m][1] = "set_high" /\ log[m][2] = m - 1
    /\ pc = "dropped" =>
         /\ ~ENABLED Get
         /\ out.tag = "Err"
         /\ log # <<>>
         /\ log[Len(log)][3] = "err"
    /\ (call = "new" /\ out.tag = "Ok") =>
         \A k \in RowIdx : \E i \in IdxOn("set_high", k) : log[i][3] = "ok"

\* new failed at the first of two rows: the second row got no operation.
C7_Witness ==
    /\ pc = "dropped"
    /\ RS = 2
    /\ out = Err(PinError("set_high", 0))
    /\ Len(log) = 1

C13_NoPinOperations ==
    (call = "get" /\ (RS = 0 \/ CS = 0)) =>
        /\ log = <<>>
        /\ pc = "idle" => out = Ok(AllFalse)

\* C13, amended: with RS = 0 a get performs no pin operation and no delay and
\* returns Ok with the empty grid; with CS = 0 a get reads no column, and when
\* it returns Ok the grid is RS empty rows and each row was set low, delayed
\* and set high.
C13_EmptyMatrix ==
    call = "get" =>
        /\ RS = 0 =>
             /\ log = <<>>
             /\ dly = NoDelay
             /\ pc = "idle" => out = Ok(AllFalse)
        /\ CS = 0 =>
             /\ IdxOf("is_low") = {}
             /\ (pc = "idle" /\ out.tag = "Ok") =>
                  /\ out.val = AllFalse
                  /\ Len(log) = 3 * RS
                  /\ \A k \in RowIdx :
                       /\ log[3 * k + 1] = Rec("set_low", k, "ok")
                       /\ log[3 * k + 2] = Rec("delay_us", SettleUs, "ok")
                       /\ log[3 * k + 3] = Rec("set_high", k, "ok")

\* A get of a matrix of two rows and no column returned Ok after driving
\* both rows.
C13_Witness ==
    /\ GetReturned /\ out.tag = "Ok"
    /\ RS = 2 /\ CS = 0
    /\ Len(log) = 6

\* C16 as stated: each settle delay makes 10 calls of the delay primitive,
\* and each call is given one tick.
C16_OneTickPerCall ==
    call = "get" =>
        /\ dly.calls = 10 * Cardinality(IdxOf("delay_us"))
        /\ dly.ticks = dly.calls

\* C16, amended: each settle delay makes 10 calls of the delay primitive, one
\* per microsecond asked for, and each call is given 12 ticks, the ticks of
\* one microsecond at 12 MHz; the number of calls and the tick argument are
\* the unwrapped values, so neither overflows u32.
C16_SettleDelay ==
    call = "get" =>
        /\ dly.calls = 10 * Cardinality(IdxOf("delay_us"))
        /\ dly.ticks = 12 * dly.calls
        /\ delay_us(SettleUs).calls = SettleUs * 1
        /\ delay_us(SettleUs).ticks = 12000000 \div 1000000
        /\ FitsU32(SettleUs * 1)
        /\ FitsU32(12000000 \div 1000000)

\* A scan of two rows returned Ok after two settle delays: 20 calls of the
\* primitive, 240 ticks.
C16_Witness ==
    /\ GetReturned /\ out.tag = "Ok"
    /\ RS = 2
    /\ dly = [calls |-> 20, ticks |-> 240]

\* C17: a column is sampled only while the row being scanned is low; every
\* sample of the log comes after a set-low that returned Ok and the settle
\* delay that follows it, with no set-high in between; the samples of a row
\* are columns 0, 1, ... in order, and a row that was set high again had each
\* of its CS columns sampled once.
C17_SampleWindow ==
    /\ pc = "col" => (rows[ri] = "low" /\ LowRows # {})
    /\ call = "get" =>
         /\ \A i \in IdxOf("is_low") :
              LET before == {m \in IdxOf("set_low") : m < i}
                  lo == MaxOf(before)
              IN  /\ before # {}
                  /\ log[lo][3] = "ok"
                  /\ log[lo + 1] = Rec("delay_us", SettleUs, "ok")
                  /\ lo + 1 < i
                  /\ \A m \in IdxOf("set_high") : ~(lo < m /\ m < i)
                  /\ log[i][2] = i - lo - 2
                  /\ log[i][2] < CS
         /\ \A h \in IdxOf("set_high") :
              LET lo == MaxOf({m \in IdxOf("set_low") : m < h})
              IN  /\ log[lo][2] = log[h][2]
                  /\ Cardinality({i \in IdxOf("is_low") : lo < i /\ i < h}) = CS

\* Both columns of the second row of a 2 x 2 matrix have been sampled and the
\* row is still low.
C17_Witness ==
    /\ pc = "col"
    /\ RS = 2 /\ CS = 2
    /\ ri = 1 /\ ci = 2
    /\ rows[1] = "low"
    /\ Cardinality(IdxOf("is_low")) = 4

(***************************************************************************)
(* Properties of DirectPinMatrix, checked under SpecDirect                 *)
(***************************************************************************)

\* The place of cell x in row-major order.
RowMajor(x) == x[1] * CS + x[2]

\* C9: a pin read that fails at cell (r, c) is the last operation of the
\* call: get has returned that read's error, no cell after (r, c) in
\* row-major order was sampled, and every pin before (r, c) was read without
\* error, so the error is that of the first failing pin.
C9_FirstErrorWins ==
    call = "get" =>
        /\ \A i \in 1 .. Len(log) :
             log[i][3] = "err" =>
                 /\ i = Len(log)
                 /\ pc = "d_idle"
                 /\ out = Err(PinError("is_low", log[i][2]))
                 /\ \A m \in 1 .. Len(log) : RowMajor(log[m][2]) <= RowMajor(log[i][2])
                 /\ {log[m][2] : m \in 1 .. (i - 1)} =
                        {x \in pins : RowMajor(x) < RowMajor(log[i][2])}
        /\ (pc = "d_idle" /\ out.tag # "Ok") =>
             /\ out.tag = "Err"
             /\ Len(log) > 0
             /\ log[Len(log)][3] = "err"

\* A scan of a 2 x 2 grid failed at cell (1, 0) after a read, with a pin
\* present at the cell after it.
C9_Witness ==
    /\ pc = "d_idle" /\ call = "get"
    /\ RS = 2 /\ CS = 2
    /\ out = Err(PinError("is_low", <<1, 0>>))
    /\ <<1, 1>> \in pins
    /\ Len(log) >= 2

\* C10: a cell without a pin is false in the grid of every scan that
\* returned Ok, and in the grid under construction at every moment of a
\* scan, whatever the pins read; and no read is ever issued for such a cell.
C10_AbsentIsFalse ==
    /\ (pc = "d_idle" /\ call = "get" /\ out.tag = "Ok") =>
         \A x \in Cells \ pins : ~out.val[x[1]][x[2]]
    /\ pc = "d_cell" => \A x \in Cells \ pins : ~keys[x[1]][x[2]]
    /\ \A i \in 1 .. Len(log) : log[i][2] \in pins

\* A scan of a 2 x 2 grid returned Ok with an absent cell next to a pressed
\* pin.
C10_Witness ==
    /\ pc = "d_idle" /\ call = "get" /\ out.tag = "Ok"
    /\ RS = 2 /\ CS = 2
    /\ <<0, 0>> \notin pins
    /\ <<0, 1>> \in pins
    /\ out.val[0][1]
    /\ Len(log) = Cardinality(pins)

\* C15: DirectPinMatrix::new returns Ok for every grid of optional pins, and
\* performs no pin operation and no delay.
C15_DirectNewIsPure ==
    /\ pc = "d_start" => (out = NoResult /\ log = <<>>)
    /\ call = "new" =>
         /\ pc = "d_idle"
         /\ out = Ok("Self")
         /\ log = <<>>
         /\ dly = NoDelay
         /\ rows = <<>>

\* new has returned for a 2 x 2 grid with three pins.
C15_Witness ==
    /\ pc = "d_idle" /\ call = "new"
    /\ RS = 2 /\ CS = 2
    /\ Cardinality(pins) = 3
    /\ out = Ok("Self")

\* C18: in the grid of a DirectPinMatrix scan that returned Ok, a cell is
\* true exactly when it has a pin and that pin read low, which is when its
\* switch is closed if no switch was changed; the log is one read per present
\* pin, in row-major order, and nothing else: no write and no delay.
C18_DirectGrid ==
    (pc = "d_idle" /\ call = "get" /\ out.tag = "Ok") =>
        /\ \A x \in Cells :
             out.val[x[1]][x[2]] <=>
                 (x \in pins /\ \E i \in 1 .. Len(log) : log[i] = Rec("is_low", x, "low"))
        /\ changes = 0 =>
             \A x \in Cells : out.val[x[1]][x[2]] <=> (x \in pins /\ x \in pressed)
        /\ Len(log) = Cardinality(pins)
        /\ \A i \in 1 .. Len(log) : log[i][1] = "is_low" /\ log[i][2] \in pins
        /\ \A i \in 1 .. Len(log) : \A j \in 1 .. Len(log) :
             i < j => RowMajor(log[i][2]) < RowMajor(log[j][2])
        /\ dly = NoDelay
        /\ rows = <<>>

\* A scan of a 2 x 2 grid with three pins, one of them low, returned Ok.
C18_Witness ==
    /\ pc = "d_idle" /\ call = "get" /\ out.tag = "Ok"
    /\ RS = 2 /\ CS = 2
    /\ pins = {<<0, 0>>, <<0, 1>>, <<1, 1>>}
    /\ out.val[1][1] /\ ~out.val[0][0]
    /\ Len(log) = 3

(***************************************************************************)
(* Properties of both scanners                                             *)
(***************************************************************************)

\* A get of either scanner has returned and no other call has begun.
ScanReturned == pc \in {"idle", "d_idle"} /\ call = "get"

\* C11: when two get calls in succession both returned Ok and no switch has
\* changed, the two grids are equal.  Checked under SpecTwice.
C11_Idempotent ==
    (/\ ScanReturned
     /\ out.tag = "Ok"
     /\ prev.call = "get"
     /\ prev.tag = "Ok"
     /\ changes = 0) => out.val = prev.val

\* C12: the grid of a get that returned Ok is a function of the switches
\* alone, whatever the earlier calls did.  The first get after new returns
\* the grid whose cell [k][j] is true exactly when switch (k, j) is closed, so
\* this is the grid every later get returns for the same switches.
C12_GridIsSwitchState ==
    (GetReturned /\ out.tag = "Ok" /\ changes = 0) =>
        \A k \in RowIdx : \A j \in ColIdx : out.val[k][j] <=> (<<k, j>> \in pressed)

\* C14: a get of either scanner in which every read returned high and no
\* pin operation failed returns Ok with the all-false grid of RS rows of CS
\* cells; this is so whenever no switch is closed and none was changed.
C14_NothingPressed ==
    ScanReturned =>
        /\ (\A i \in 1 .. Len(log) : log[i][3] \notin {"low", "err"}) =>
             out = Ok(AllFalse)
        /\ (/\ pressed = {}
            /\ changes = 0
            /\ \A i \in 1 .. Len(log) : log[i][3] # "err") => out = Ok(AllFalse)

\* A get of a 2 x 2 diode matrix with no switch closed returned the all-false
\* grid.
C14_Witness ==
    /\ GetReturned
    /\ RS = 2 /\ CS = 2
    /\ pressed = {} /\ changes = 0
    /\ Len(log) = 10
    /\ out = Ok(AllFalse)

\* A call has begun and has not returned.
InCall == pc \in {"clear", "row", "delay", "col", "d_cell"}

\* The last call has returned.
Returned == pc \in {"idle", "dropped", "d_idle"}

\* The pin operations of the log: every entry but the settle delays.
PinOps == Len(log) - Cardinality(IdxOf("delay_us"))

\* The bounds of C19 on the operations of the current call.
OpsBounded ==
    /\ Returned => out.tag \in {"Ok", "Err"}
    /\ (call = "get" /\ pc \in {"idle", "row", "delay", "col"}) =>
         /\ PinOps <= RS * (CS + 2)
         /\ Cardinality(IdxOf("delay_us")) <= RS
         /\ (pc = "idle" /\ out.tag = "Ok") =>
              /\ PinOps = RS * (CS + 2)
              /\ Cardinality(IdxOf("delay_us")) = RS
    /\ (call = "get" /\ pc \in {"d_idle", "d_cell"}) =>
         /\ Len(log) <= RS * CS
         /\ IdxOf("is_low") = 1 .. Len(log)
    /\ (call = "new" /\ pc \in {"clear", "idle", "dropped"}) =>
         /\ Len(log) <= RS
         /\ IdxOf("set_high") = 1 .. Len(log)
    /\ (call = "new" /\ pc = "d_idle") => log = <<>>

\* C19: every call of new or get that has begun returns, Ok or Err, and at
\* every moment the operations it has made are within the bounds: at most
\* RS * (CS + 2) pin operations and RS settle delays for Matrix::get, exactly
\* that many when it returns Ok; at most RS * CS reads for
\* DirectPinMatrix::get; at most RS set-high operations for Matrix::new.
\* Checked under SpecFair.
C19_CallsTerminate == []OpsBounded /\ (InCall ~> Returned)

\* A scan of a 2 x 2 diode matrix returned Ok after exactly 8 pin operations
\* and 2 settle delays.
C19_Witness ==
    /\ GetReturned /\ out.tag = "Ok"
    /\ RS = 2 /\ CS = 2
    /\ PinOps = 8
    /\ Cardinality(IdxOf("delay_us")) = 2

====
